---- MODULE Spec2Model ----
(***************************************************************************)
(* A model of the product parser service: the POST /parse-product handler  *)
(* of server.js, fetchProductPage and the two versions of                  *)
(* extractProductData (productService.js, which server.js requires, and    *)
(* the later version of the same module), with the markup heuristics and   *)
(* the parsing of the completion text computed character by character.     *)
(*                                                                         *)
(* JavaScript strings are TLA+ strings; a JavaScript value that the code   *)
(* builds or parses (a record, an array, a number) is a tagged record      *)
(* [k |-> kind, v |-> payload].                                            *)
(***************************************************************************)
EXTENDS Integers, Sequences, FiniteSets, TLC

(***************************************************************************)
(* JavaScript values                                                       *)
(***************************************************************************)
Undefined == [k |-> "undefined", v |-> 0]
Null == [k |-> "null", v |-> 0]
Bool(b) == [k |-> "bool", v |-> b]
Num(n) == [k |-> "num", v |-> n]
Str(s) == [k |-> "str", v |-> s]
Arr(a) == [k |-> "arr", v |-> a]
Obj(f) == [k |-> "obj", v |-> f]

(***************************************************************************)
(* String primitives of JavaScript, positions counted from 1.  A value     *)
(* that a function computes once and reads several times is handed on as   *)
(* a parameter of a helper operator (f == fWith(value)).                   *)
(***************************************************************************)
MinOf(S) == CHOOSE i \in S : \A j \in S : i <= j
MaxOf(S) == CHOOSE i \in S : \A j \in S : i >= j
Min2(a, b) == IF a <= b THEN a ELSE b
Max2(a, b) == IF a >= b THEN a ELSE b

\* the least element of a set of positions, d when the set is empty
FirstOr(S, d) == IF S = {} THEN d ELSE MinOf(S)
\* the greatest element of a set of positions, d when the set is empty
LastOr(S, d) == IF S = {} THEN d ELSE MaxOf(S)

\* the characters of s at positions a..b that exist ("" when there are none)
Sub(s, a, b) ==
  IF Max2(a, 1) > Min2(b, Len(s)) THEN "" ELSE SubSeq(s, Max2(a, 1), Min2(b, Len(s)))

At(s, i) == Sub(s, i, i)

\* the positions >= from at which sub occurs in s
Occ(s, sub, from) ==
  {i \in from..(Len(s) - Len(sub) + 1) : SubSeq(s, i, i + Len(sub) - 1) = sub}

\* s.indexOf(sub, from - 1) + 1: 0 when sub does not occur
IndexOf(s, sub, from) == FirstOr(Occ(s, sub, from), 0)

\* s.includes(sub)
includes(s, sub) == Occ(s, sub, 1) # {}

\* s.substring(a, b), a and b counted from 0 as in the source
substring(s, a, b) == Sub(s, a + 1, b)

\* the suffix of s from position i
From(s, i) == Sub(s, i, Len(s))

\* the first position >= i of s that holds no character of cs (past the end if none)
SkipSet(s, i, cs) ==
  FirstOr({j \in i..Len(s) : At(s, j) \notin cs}, Max2(i, Len(s) + 1))

\* the first position >= i of s that holds a character of cs (0 if none)
FindSet(s, i, cs) == FirstOr({j \in i..Len(s) : At(s, j) \in cs}, 0)

(***************************************************************************)
(* JSON.parse, for texts without backslash escapes and exponents           *)
(***************************************************************************)
JsonWs == {" ", "\t", "\n", "\r"}
Digits == {"0", "1", "2", "3", "4", "5", "6", "7", "8", "9"}
DigitVal(c) ==
  CASE c = "0" -> 0 [] c = "1" -> 1 [] c = "2" -> 2 [] c = "3" -> 3 [] c = "4" -> 4
    [] c = "5" -> 5 [] c = "6" -> 6 [] c = "7" -> 7 [] c = "8" -> 8 [] c = "9" -> 9

RECURSIVE DigitsToNat(_)
DigitsToNat(d) ==
  IF Len(d) = 0 THEN 0
  ELSE 10 * DigitsToNat(Sub(d, 1, Len(d) - 1)) + DigitVal(At(d, Len(d)))

RECURSIVE StripZeros(_)
StripZeros(d) ==
  IF Len(d) > 0 /\ At(d, Len(d)) = "0" THEN StripZeros(Sub(d, 1, Len(d) - 1)) ELSE d

JsonFail == [ok |-> FALSE, next |-> 0, v |-> Undefined]
JsonOk(n, val) == [ok |-> TRUE, next |-> n, v |-> val]

\* a string token from the quote at position i to the next quote, at position j
JsonStringTo(s, i, j) ==
  IF j = 0 THEN JsonFail
  ELSE IF \E c \in {"\\", "\n", "\r", "\t"} : includes(Sub(s, i + 1, j - 1), c) THEN JsonFail
  ELSE JsonOk(j + 1, Str(Sub(s, i + 1, j - 1)))

JsonString(s, i) == JsonStringTo(s, i, IndexOf(s, "\"", i + 1))

\* a number token: -? int frac?, the digits of int at a..b-1, the token ends before c
JsonNumberEnd(s, i, a, b, c) ==
  IF a = b THEN JsonFail
  ELSE IF b - a > 1 /\ At(s, a) = "0" THEN JsonFail
  ELSE IF At(s, b) = "." /\ c = b + 1 THEN JsonFail
  ELSE IF At(s, c) \in {"e", "E"} THEN JsonFail
  ELSE JsonOk(c, Num([neg |-> a # i, int |-> DigitsToNat(Sub(s, a, b - 1)),
                      frac |-> StripZeros(Sub(s, b + 1, c - 1))]))

JsonNumberInt(s, i, a, b) ==
  JsonNumberEnd(s, i, a, b, IF At(s, b) = "." THEN SkipSet(s, b + 1, Digits) ELSE b)

JsonNumberFrom(s, i, a) == JsonNumberInt(s, i, a, SkipSet(s, a, Digits))

JsonNumber(s, i) == JsonNumberFrom(s, i, IF At(s, i) = "-" THEN i + 1 ELSE i)

RECURSIVE JsonValue(_, _), JsonMembers(_, _, _), JsonElements(_, _, _)

\* after a member: a comma and the next member, or the closing brace, at position d
JsonMemberNext(s, acc, d) ==
  IF At(s, d) = "," THEN JsonMembers(s, SkipSet(s, d + 1, JsonWs), acc)
  ELSE IF At(s, d) = "}" THEN JsonOk(d + 1, Obj(acc))
  ELSE JsonFail

\* a repeated key keeps the last value
JsonPut(acc, key, val) == [x \in (DOMAIN acc) \cup {key} |-> IF x = key THEN val ELSE acc[x]]

JsonMemberValue(s, acc, key, val) ==
  IF ~val.ok THEN JsonFail
  ELSE JsonMemberNext(s, JsonPut(acc, key.v.v, val.v), SkipSet(s, val.next, JsonWs))

JsonMemberColon(s, acc, key, c) ==
  IF At(s, c) # ":" THEN JsonFail
  ELSE JsonMemberValue(s, acc, key, JsonValue(s, SkipSet(s, c + 1, JsonWs)))

JsonMemberKey(s, acc, key) ==
  IF ~key.ok THEN JsonFail ELSE JsonMemberColon(s, acc, key, SkipSet(s, key.next, JsonWs))

\* the members of an object, the first key at position i
JsonMembers(s, i, acc) ==
  IF At(s, i) # "\"" THEN JsonFail ELSE JsonMemberKey(s, acc, JsonString(s, i))

JsonElementNext(s, acc, d) ==
  IF At(s, d) = "," THEN JsonElements(s, SkipSet(s, d + 1, JsonWs), acc)
  ELSE IF At(s, d) = "]" THEN JsonOk(d + 1, Arr(acc))
  ELSE JsonFail

JsonElementValue(s, acc, val) ==
  IF ~val.ok THEN JsonFail
  ELSE JsonElementNext(s, Append(acc, val.v), SkipSet(s, val.next, JsonWs))

\* the elements of an array, the first element at position i
JsonElements(s, i, acc) == JsonElementValue(s, acc, JsonValue(s, i))

\* an object or an array opened at position i, j the position after the blanks
JsonOpen(s, i, j) ==
  IF At(s, i) = "{"
  THEN (IF At(s, j) = "}" THEN JsonOk(j + 1, Obj(<<>>)) ELSE JsonMembers(s, j, <<>>))
  ELSE (IF At(s, j) = "]" THEN JsonOk(j + 1, Arr(<<>>)) ELSE JsonElements(s, j, <<>>))

\* the value starting at position i (no leading whitespace)
JsonValue(s, i) ==
  IF i > Len(s) THEN JsonFail
  ELSE IF At(s, i) \in {"{", "["} THEN JsonOpen(s, i, SkipSet(s, i + 1, JsonWs))
  ELSE IF At(s, i) = "\"" THEN JsonString(s, i)
  ELSE IF At(s, i) \in Digits \cup {"-"} THEN JsonNumber(s, i)
  ELSE IF Sub(s, i, i + 3) = "true" THEN JsonOk(i + 4, Bool(TRUE))
  ELSE IF Sub(s, i, i + 4) = "false" THEN JsonOk(i + 5, Bool(FALSE))
  ELSE IF Sub(s, i, i + 3) = "null" THEN JsonOk(i + 4, Null)
  ELSE JsonFail

JsonParsed(s, r) ==
  IF r.ok /\ SkipSet(s, r.next, JsonWs) = Len(s) + 1
  THEN [ok |-> TRUE, v |-> r.v]
  ELSE [ok |-> FALSE, v |-> Undefined]

\* JSON.parse(s): ok is FALSE where JSON.parse throws a SyntaxError
JsonParse(s) == JsonParsed(s, JsonValue(s, SkipSet(s, 1, JsonWs)))

\* content.match(/\{[\s\S]*\}/): the leftmost "{" up to the last "}" after it
\* (the star is greedy), "" standing for null (no match)
MatchBracesFrom(s, i) ==
  IF i = 0 THEN "" ELSE Sub(s, i, LastOr(Occ(s, "}", i + 1), 0))

MatchBraces(s) == MatchBracesFrom(s, IndexOf(s, "{", 1))

(***************************************************************************)
(* Regular-expression primitives over markup                               *)
(***************************************************************************)
UpperChars ==
  {"A", "B", "C", "D", "E", "F", "G", "H", "I", "J", "K", "L", "M",
   "N", "O", "P", "Q", "R", "S", "T", "U", "V", "W", "X", "Y", "Z"}
UpperAlphabet == "ABCDEFGHIJKLMNOPQRSTUVWXYZ"
LowerAlphabet == "abcdefghijklmnopqrstuvwxyz"
LowerChar(c) ==
  IF c \in UpperChars THEN At(LowerAlphabet, IndexOf(UpperAlphabet, c, 1)) ELSE c

\* s.toLowerCase(); also the reading of s by a regular expression with the i flag
RECURSIVE Lower(_)
Lower(s) ==
  IF Len(s) = 0 THEN ""
  ELSE IF Len(s) = 1 THEN LowerChar(s)
  ELSE Lower(Sub(s, 1, Len(s) \div 2)) \o Lower(Sub(s, Len(s) \div 2 + 1, Len(s)))

\* \s of a regular expression, and the characters "." does not match
Space == {" ", "\t", "\n", "\r", "\f"}
LineEnds == {"\n", "\r"}
\* the character class ["|'] of the source's patterns
Quotes == {"\"", "|", "'"}
\* \w of a regular expression
WordChars ==
  UpperChars \cup Digits \cup {"_"} \cup
  {"a", "b", "c", "d", "e", "f", "g", "h", "i", "j", "k", "l", "m",
   "n", "o", "p", "q", "r", "s", "t", "u", "v", "w", "x", "y", "z"}

HasLineEnd(s) == \E c \in LineEnds : includes(s, c)
IncludesAny(s, words) == \E w \in words : includes(s, w)
StartsAt(s, sub, i) == Sub(s, i, i + Len(sub) - 1) = sub

\* s.trim()
TrimTo(s, S) == IF S = {} THEN "" ELSE Sub(s, MinOf(S), MaxOf(S))
trim(s) == TrimTo(s, {j \in 1..Len(s) : At(s, j) \notin Space})

\* A match: start..end are the positions of match[0], gs..ge those of match[1]
NoMatch == [ok |-> FALSE, start |-> 0, gs |-> 0, ge |-> 0, end |-> 0]
Match(start, gs, ge, end) == [ok |-> TRUE, start |-> start, gs |-> gs, ge |-> ge, end |-> end]
Whole(s, m) == Sub(s, m.start, m.end)
Group(s, m) == Sub(s, m.gs, m.ge)
\* match[1] of a match, "" when there is no match
GroupOf(s, m) == IF m.ok THEN Group(s, m) ELSE ""
\* a || b of matches
OrElse(a, b) == IF a.ok THEN a ELSE b

\* The match, anchored at position i, of  open [^>]* (words) [^>]* > (group) close
\* with the i flag, lo = Lower(s).  The tag ends at e, the first ">"; the group is
\* lazy and ends before c, the first close after the tag; it is (.*?) unless dotall,
\* ([\s\S]*?) if dotall.  An empty set of words stands for a pattern without the
\* middle alternative.
TagClose(s, i, close, dotall, e, c) ==
  IF c = 0 THEN NoMatch
  ELSE IF ~dotall /\ HasLineEnd(Sub(s, e + 1, c - 1)) THEN NoMatch
  ELSE Match(i, e + 1, c - 1, c + Len(close) - 1)

TagOpen(s, lo, i, open, words, close, dotall, e) ==
  IF i = 0 \/ ~StartsAt(lo, open, i) \/ e = 0 THEN NoMatch
  ELSE IF words # {} /\ ~IncludesAny(Sub(lo, i + Len(open), e - 1), words) THEN NoMatch
  ELSE TagClose(s, i, close, dotall, e, IndexOf(lo, close, e + 1))

TagAt(s, lo, i, open, words, close, dotall) ==
  TagOpen(s, lo, i, open, words, close, dotall, IndexOf(s, ">", i + Len(open)))

\* s.match(/open[^>]*(words)[^>]*>(group)close/i): the leftmost such match that
\* starts at or after from
TagFrom(s, lo, from, open, words, close, dotall) ==
  TagAt(s, lo,
        FirstOr({i \in Occ(lo, open, from) : TagAt(s, lo, i, open, words, close, dotall).ok}, 0),
        open, words, close, dotall)

\* s.match(/.../gi) || []: every match[0], each search resuming after the last match
RECURSIVE TagAllFrom(_, _, _, _, _, _, _)
TagAllRest(s, lo, open, words, close, dotall, m) ==
  IF ~m.ok THEN <<>>
  ELSE <<Whole(s, m)>> \o TagAllFrom(s, lo, m.end + 1, open, words, close, dotall)

TagAllFrom(s, lo, from, open, words, close, dotall) ==
  TagAllRest(s, lo, open, words, close, dotall,
             TagFrom(s, lo, from, open, words, close, dotall))

\* The match, anchored at i, of  open ["|'] (.*?) ["|']  with the i flag (open is
\* "value=", "class=", "data-color="), c the first quote character after the opening one
AttrClose(s, lo, i, open, c) ==
  IF i = 0 \/ ~StartsAt(lo, open, i) \/ At(s, i + Len(open)) \notin Quotes THEN NoMatch
  ELSE IF c = 0 \/ HasLineEnd(Sub(s, i + Len(open) + 1, c - 1)) THEN NoMatch
  ELSE Match(i, i + Len(open) + 1, c - 1, c)

AttrAt(s, lo, i, open) == AttrClose(s, lo, i, open, FindSet(s, i + Len(open) + 1, Quotes))

AttrIn(s, lo, open) ==
  AttrAt(s, lo, FirstOr({i \in Occ(lo, open, 1) : AttrAt(s, lo, i, open).ok}, 0), open)

\* s.match(/open["|'](.*?)["|']/i)
Attr(s, open) == AttrIn(s, Lower(s), open)

\* s.replace(/<[^>]*>/g, by)
RECURSIVE ReplaceTags(_, _)
ReplaceTagsTo(s, by, i, e) ==
  IF e = 0 THEN s ELSE Sub(s, 1, i - 1) \o by \o ReplaceTags(From(s, e + 1), by)

ReplaceTagsAt(s, by, i) == IF i = 0 THEN s ELSE ReplaceTagsTo(s, by, i, IndexOf(s, ">", i + 1))

ReplaceTags(s, by) == ReplaceTagsAt(s, by, IndexOf(s, "<", 1))

(***************************************************************************)
(* cleanHtml                                                               *)
(***************************************************************************)
\* s.replace(/<name\b[^<]*(?:(?!<\/name>)<[^<]*)*<\/name>/gi, ''): each block from
\* an opening "<name" (a word boundary after it), at i, to the first closing tag
\* after it, at c
RECURSIVE RemoveBlocks(_, _)
RemoveBlocksTo(s, name, i, c) ==
  IF c = 0 THEN s ELSE Sub(s, 1, i - 1) \o RemoveBlocks(From(s, c + Len(name) + 3), name)

RemoveBlocksAt(s, lo, name, i) ==
  IF i = 0 THEN s
  ELSE RemoveBlocksTo(s, name, i, IndexOf(lo, "</" \o name \o ">", i + Len(name) + 1))

RemoveBlocksIn(s, lo, name) ==
  RemoveBlocksAt(s, lo, name,
                 FirstOr({i \in Occ(lo, "<" \o name, 1) :
                            At(s, i + Len(name) + 1) \notin WordChars}, 0))

RemoveBlocks(s, name) == RemoveBlocksIn(s, Lower(s), name)

\* s.replace(/<!--[\s\S]*?-->/g, '')
RECURSIVE RemoveComments(_)
RemoveCommentsTo(s, i, c) ==
  IF c = 0 THEN s ELSE Sub(s, 1, i - 1) \o RemoveComments(From(s, c + 3))

RemoveCommentsAt(s, i) == IF i = 0 THEN s ELSE RemoveCommentsTo(s, i, IndexOf(s, "-->", i + 4))

RemoveComments(s) == RemoveCommentsAt(s, IndexOf(s, "<!--", 1))

\* s.replace(/\s{2,}/g, ' ')
RECURSIVE CollapseSpaces(_)
CollapseSpacesAt(s, i) ==
  IF i = 0 THEN s
  ELSE Sub(s, 1, i - 1) \o " " \o CollapseSpaces(From(s, SkipSet(s, i, Space)))

CollapseSpaces(s) ==
  CollapseSpacesAt(s, FirstOr({i \in 1..(Len(s) - 1) :
                                 At(s, i) \in Space /\ At(s, i + 1) \in Space}, 0))

cleanHtml(html) ==
  CollapseSpaces(RemoveComments(RemoveBlocks(RemoveBlocks(RemoveBlocks(html, "script"), "style"), "svg")))

(***************************************************************************)
(* extractSizeOptions                                                      *)
(***************************************************************************)
\* Dedupe, had the options been filtered without going through a Set
DedupeNone(a, seen) == a

\* [...new Set(a)]: the first occurrence of each element, in order
RECURSIVE Dedupe(_, _)
Dedupe(a, seen) ==
  IF a = <<>> THEN <<>>
  ELSE IF \E j \in 1..Len(seen) : seen[j] = Head(a) THEN Dedupe(Tail(a), seen)
  ELSE <<Head(a)>> \o Dedupe(Tail(a), Append(seen, Head(a)))

NonEmpty(s) == s # ""

\* the final filter of both option extractors
KeepOption(o) == o # "" /\ Len(o) < 20 /\ ~includes(o, "select") /\ ~includes(o, "choose")

\* [\s-] of the unavailability pattern
Separators == Space \cup {"-"}

OfStockAt(lo, j) == StartsAt(lo, "of", j) /\ StartsAt(lo, "stock", SkipSet(lo, j + 2, Separators))

UnavailableIn(lo) ==
  \/ includes(lo, "disabled")
  \/ includes(lo, "unavailable")
  \/ \E i \in Occ(lo, "sold", 1) : StartsAt(lo, "out", SkipSet(lo, i + 4, Separators))
  \/ \E i \in Occ(lo, "out", 1) : OfStockAt(lo, SkipSet(lo, i + 3, Separators))

\* Unavailable, had the pattern named the disabled attribute alone
UnavailableDisabledOnly(option) == includes(Lower(option), "disabled")

\* option.match(/disabled|sold[\s-]*out|out[\s-]*of[\s-]*stock|unavailable/i)
Unavailable(option) == UnavailableIn(Lower(option))

\* /^\d+$/.test(s)
AllDigits(s) == Len(s) > 0 /\ SkipSet(s, 1, Digits) = Len(s) + 1

\* the item-like elements of a size container, pattern by pattern
SizeItemsIn(container, lo) ==
  TagAllFrom(container, lo, 1, "<option", {}, "</option>", FALSE)
    \o TagAllFrom(container, lo, 1, "<li", {}, "</li>", FALSE)
    \o TagAllFrom(container, lo, 1, "<button", {}, "</button>", FALSE)
    \o TagAllFrom(container, lo, 1, "<a", {}, "</a>", FALSE)
    \o TagAllFrom(container, lo, 1, "<div", {"option"}, "</div>", FALSE)

SizeItems(container) == SizeItemsIn(container, Lower(container))

\* what one pass of the loop over the options pushes: text is the visible text of
\* the option, value its value attribute ("" if it has none)
SizesOfText(option, includeUnavailable, text, value) ==
  IF ~includeUnavailable /\ Unavailable(option) THEN <<>>
  ELSE IF text = "" \/ includes(text, "Select") \/ includes(text, "Choose") THEN <<>>
  ELSE IF value # "" /\ ~AllDigits(value) /\ ~includes(value, "select") /\ Len(value) < 10
    THEN <<text, value>>
  ELSE <<text>>

SizesOfOption(option, includeUnavailable) ==
  SizesOfText(option, includeUnavailable, trim(ReplaceTags(option, "")),
              GroupOf(option, Attr(option, "value=")))

RECURSIVE SizesOfOptions(_, _)
SizesOfOptions(options, includeUnavailable) ==
  IF options = <<>> THEN <<>>
  ELSE SizesOfOption(Head(options), includeUnavailable)
         \o SizesOfOptions(Tail(options), includeUnavailable)

RECURSIVE SizesOfContainers(_, _)
SizesOfContainers(containers, includeUnavailable) ==
  IF containers = <<>> THEN <<>>
  ELSE SizesOfOptions(SizeItems(Head(containers)), includeUnavailable)
         \o SizesOfContainers(Tail(containers), includeUnavailable)

\* the candidate containers, those that matched and are not empty
sizeContainersIn(html, lo) ==
  SelectSeq(<<GroupOf(html, TagFrom(html, lo, 1, "<select", {"size", "variant"}, "</select>", TRUE)),
              GroupOf(html, TagFrom(html, lo, 1, "<div", {"size", "variant"}, "</div>", TRUE)),
              GroupOf(html, TagFrom(html, lo, 1, "<ul", {"size", "variant"}, "</ul>", TRUE))>>,
            NonEmpty)

sizeContainers(html) == sizeContainersIn(html, Lower(html))

extractSizeOptions(html, includeUnavailable) ==
  SelectSeq(Dedupe(SizesOfContainers(sizeContainers(html), includeUnavailable), <<>>),
            KeepOption)

(***************************************************************************)
(* extractColorOptions                                                     *)
(***************************************************************************)
colorKeywords ==
  <<"red", "blue", "green", "yellow", "orange", "purple", "pink", "brown", "black",
    "white", "gray", "grey", "navy", "teal", "gold", "silver", "beige", "burgundy",
    "turquoise", "lavender", "cream", "khaki", "olive">>

\* the indices of the keywords that the lower-cased text includes
KeywordsIn(lo) == {j \in 1..Len(colorKeywords) : includes(lo, colorKeywords[j])}

\* colorKeywords.some(color => s.toLowerCase().includes(color))
HasColorKeyword(s) == KeywordsIn(Lower(s)) # {}

\* colorKeywords.find(color => s.toLowerCase().includes(color))
FindColorKeyword(s) == colorKeywords[MinOf(KeywordsIn(Lower(s)))]

Contains(a, e) == \E j \in 1..Len(a) : a[j] = e

\* s.split(/\s+/)
RECURSIVE SplitSpaces(_)
SplitSpacesAt(s, i) ==
  IF i = 0 THEN <<s>>
  ELSE <<Sub(s, 1, i - 1)>> \o SplitSpaces(From(s, SkipSet(s, i, Space)))

SplitSpaces(s) == SplitSpacesAt(s, FindSet(s, 1, Space))

\* The match, anchored at i, of  style=["|'].*?background(?:-color)?:\s*(.*?)[;"|']
\* with the i flag: the first "background" on the line of the attribute that a
\* colon follows (at k), then the text after the blanks (from g) up to the first
\* terminator (at c), on one line
StyleValueTo(s, g, c) ==
  IF c = 0 \/ HasLineEnd(Sub(s, g, c - 1)) THEN NoMatch ELSE Match(g, g, c - 1, c)

StyleValueAt(s, g) == StyleValueTo(s, g, FindSet(s, g, {";"} \cup Quotes))

StyleValueFrom(s, k) == IF k = 0 THEN NoMatch ELSE StyleValueAt(s, SkipSet(s, k + 1, Space))

StyleColon(lo, a) ==
  IF a = 0 THEN 0
  ELSE IF StartsAt(lo, "-color:", a + 10) THEN a + 16
  ELSE IF At(lo, a + 10) = ":" THEN a + 10
  ELSE 0

StyleValue(s, lo, a) == StyleValueFrom(s, StyleColon(lo, a))

StyleOnLine(s, lo, i, limit) ==
  StyleValue(s, lo, FirstOr({a \in Occ(lo, "background", i + 7) :
                               a <= limit /\ StyleValue(s, lo, a).ok}, 0))

StyleAt(s, lo, i) ==
  IF i = 0 \/ ~StartsAt(lo, "style=", i) \/ At(s, i + 6) \notin Quotes THEN NoMatch
  ELSE StyleOnLine(s, lo, i, FirstOr({j \in (i + 7)..Len(s) : At(s, j) \in LineEnds}, Len(s) + 1))

StyleIn(s, lo) == StyleAt(s, lo, FirstOr({i \in Occ(lo, "style=", 1) : StyleAt(s, lo, i).ok}, 0))

\* option.match(/style=["|'].*?background(?:-color)?:\s*(.*?)[;"|']/i)
Style(s) == StyleIn(s, Lower(s))

\* the loop over the class names of one option
RECURSIVE ColorsOfClasses(_, _)
ColorsOfClasses(classes, colorOptions) ==
  IF classes = <<>> THEN colorOptions
  ELSE IF HasColorKeyword(Head(classes))
            /\ ~Contains(colorOptions, FindColorKeyword(Head(classes)))
    THEN ColorsOfClasses(Tail(classes), Append(colorOptions, FindColorKeyword(Head(classes))))
  ELSE ColorsOfClasses(Tail(classes), colorOptions)

\* the item-like elements of a color container, pattern by pattern
ColorItemsIn(container, lo) ==
  TagAllFrom(container, lo, 1, "<option", {}, "</option>", FALSE)
    \o TagAllFrom(container, lo, 1, "<li", {}, "</li>", FALSE)
    \o TagAllFrom(container, lo, 1, "<button", {}, "</button>", FALSE)
    \o TagAllFrom(container, lo, 1, "<a", {}, "</a>", FALSE)
    \o TagAllFrom(container, lo, 1, "<div", {"swatch"}, "</div>", FALSE)
    \o TagAllFrom(container, lo, 1, "<span", {"color"}, "</span>", FALSE)

ColorItems(container) == ColorItemsIn(container, Lower(container))

\* what the visible text, the style, and the data-color attribute of an option push
TextColor(text) ==
  IF text # "" /\ ~includes(text, "Select") /\ ~includes(text, "Choose")
       /\ (HasColorKeyword(text) \/ Len(text) < 15)
  THEN <<text>> ELSE <<>>

StyleColor(style) == IF style # "" THEN <<trim(style)>> ELSE <<>>

DataColor(data) == IF data # "" THEN <<data>> ELSE <<>>

\* colorOptions after one pass of the loop over the options
ColorsOfOption(option, colorOptions) ==
  IF Unavailable(option) THEN colorOptions
  ELSE ColorsOfClasses(SplitSpaces(GroupOf(option, Attr(option, "class="))),
                       colorOptions
                         \o TextColor(trim(ReplaceTags(option, "")))
                         \o StyleColor(GroupOf(option, Style(option))))
         \o DataColor(GroupOf(option, Attr(option, "data-color=")))

RECURSIVE ColorsOfOptions(_, _)
ColorsOfOptions(options, colorOptions) ==
  IF options = <<>> THEN colorOptions
  ELSE ColorsOfOptions(Tail(options), ColorsOfOption(Head(options), colorOptions))

RECURSIVE ColorsOfContainers(_, _)
ColorsOfContainers(containers, colorOptions) ==
  IF containers = <<>> THEN colorOptions
  ELSE ColorsOfContainers(Tail(containers),
                          ColorsOfOptions(ColorItems(Head(containers)), colorOptions))

colorContainersIn(html, lo) ==
  SelectSeq(<<GroupOf(html, TagFrom(html, lo, 1, "<select", {"color", "colour"}, "</select>", TRUE)),
              GroupOf(html, TagFrom(html, lo, 1, "<div", {"color", "colour"}, "</div>", TRUE)),
              GroupOf(html, TagFrom(html, lo, 1, "<ul", {"color", "colour"}, "</ul>", TRUE)),
              GroupOf(html, TagFrom(html, lo, 1, "<div", {"swatch"}, "</div>", TRUE))>>,
            NonEmpty)

colorContainers(html) == colorContainersIn(html, Lower(html))

extractColorOptions(html) ==
  SelectSeq(Dedupe(ColorsOfContainers(colorContainers(html), <<>>), <<>>), KeepOption)

(***************************************************************************)
(* extractProductInfo                                                      *)
(***************************************************************************)
\* The match, anchored at i, of  class=["|']cls["|'][^>]*>(.*?)close  with the i flag
ClassTagAt(s, lo, i, cls, close) ==
  IF i = 0 \/ ~StartsAt(lo, "class=", i) \/ At(s, i + 6) \notin Quotes
       \/ ~StartsAt(lo, cls, i + 7) \/ At(s, i + 7 + Len(cls)) \notin Quotes
  THEN NoMatch
  ELSE TagAt(s, lo, i, Sub(lo, i, i + 7 + Len(cls)), {}, close, FALSE)

\* s.match(/class=["|']cls["|'][^>]*>(.*?)close/i)
ClassTag(s, lo, cls, close) ==
  ClassTagAt(s, lo,
             FirstOr({i \in Occ(lo, "class=", 1) : ClassTagAt(s, lo, i, cls, close).ok}, 0),
             cls, close)

\* s.match(/\$(\d+\.?\d*)/i): the digits end before b, the match ends before c
DollarEnd(i, c) == Match(i, i + 1, c - 1, c - 1)

DollarInt(s, i, b) == DollarEnd(i, IF At(s, b) = "." THEN SkipSet(s, b + 1, Digits) ELSE b)

DollarAt(s, i) == IF i = 0 THEN NoMatch ELSE DollarInt(s, i, SkipSet(s, i + 1, Digits))

Dollar(s) == DollarAt(s, FirstOr({i \in Occ(s, "$", 1) : At(s, i + 1) \in Digits}, 0))

\* The match, anchored at i, of  <meta[^>]*word[^>]*content=["|'](.*?)["|']  with the
\* i flag: both stars are greedy and stay inside the tag (it ends at last), so the
\* match takes the last "content=" of the tag, at b, that comes after the word and
\* that a quoted value on one line follows
MetaValueTo(s, b, c) ==
  IF c = 0 \/ HasLineEnd(Sub(s, b + 9, c - 1)) THEN NoMatch ELSE Match(b, b + 9, c - 1, c)

MetaValue(s, b) == IF b = 0 THEN NoMatch ELSE MetaValueTo(s, b, FindSet(s, b + 9, Quotes))

MetaIn(s, lo, i, word, last) ==
  MetaValue(s, LastOr({b \in Occ(lo, "content=", i + 5) :
                         /\ b <= last
                         /\ At(s, b + 8) \in Quotes
                         /\ \E a \in Occ(lo, word, i + 5) : a + Len(word) <= b
                         /\ MetaValue(s, b).ok}, 0))

MetaTagEnd(s, e) == IF e = 0 THEN Len(s) ELSE e - 1

MetaAt(s, lo, i, word) ==
  IF i = 0 \/ ~StartsAt(lo, "<meta", i) THEN NoMatch
  ELSE MetaIn(s, lo, i, word, MetaTagEnd(s, IndexOf(s, ">", i + 5)))

\* s.match(/<meta[^>]*word[^>]*content=["|'](.*?)["|']/i)
Meta(s, lo, word) ==
  MetaAt(s, lo, FirstOr({i \in Occ(lo, "<meta", 1) : MetaAt(s, lo, i, word).ok}, 0), word)

\* productInfo.join('\n')
RECURSIVE join(_, _)
join(a, sep) ==
  IF a = <<>> THEN ""
  ELSE IF Len(a) = 1 THEN a[1]
  ELSE a[1] \o sep \o join(Tail(a), sep)

titleMatch(html, lo) ==
  OrElse(TagFrom(html, lo, 1, "<h1", {}, "</h1>", FALSE),
         OrElse(TagFrom(html, lo, 1, "<title", {}, "</title>", FALSE),
                TagFrom(html, lo, 1, "<div", {"product-title"}, "</div>", FALSE)))

priceMatch(html, lo) ==
  OrElse(ClassTag(html, lo, "price", "</span>"),
         OrElse(ClassTag(html, lo, "product-price", "</div>"), Dollar(html)))

descMatch(html, lo) ==
  OrElse(TagFrom(html, lo, 1, "<div", {"product-description", "description"}, "</div>", TRUE),
         Meta(html, lo, "description"))

catMatch(html, lo) ==
  OrElse(TagFrom(html, lo, 1, "<nav", {"breadcrumb"}, "</nav>", TRUE),
         Meta(html, lo, "product:category"))

\* the labelled line each detected field pushes to productInfo
TitleLine(html, m) ==
  IF m.ok THEN <<"PRODUCT TITLE: " \o trim(Group(html, m))>> ELSE <<>>

PriceLine(html, m) ==
  IF m.ok
  THEN <<"PRODUCT PRICE: " \o (IF Group(html, m) # "" THEN Group(html, m) ELSE Whole(html, m))>>
  ELSE <<>>

SizeLine(availableSizes) ==
  IF Len(availableSizes) > 0
  THEN <<"AVAILABLE SIZE OPTIONS: " \o join(availableSizes, ", ")>> ELSE <<>>

ColorLine(availableColors) ==
  IF Len(availableColors) > 0
  THEN <<"AVAILABLE COLOR OPTIONS: " \o join(availableColors, ", ")>> ELSE <<>>

DescLine(html, m) ==
  IF m.ok
  THEN <<"PRODUCT DESCRIPTION: "
           \o substring(trim(ReplaceTags(Group(html, m), " ")), 0, 200) \o "...">>
  ELSE <<>>

CatLine(html, m) ==
  IF m.ok THEN <<"PRODUCT CATEGORY: " \o trim(ReplaceTags(Group(html, m), " "))>> ELSE <<>>

productInfoIn(html, lo) ==
  TitleLine(html, titleMatch(html, lo))
    \o PriceLine(html, priceMatch(html, lo))
    \o SizeLine(extractSizeOptions(html, FALSE))
    \o ColorLine(extractColorOptions(html))
    \o DescLine(html, descMatch(html, lo))
    \o CatLine(html, catMatch(html, lo))

\* the labelled lines pushed to productInfo, in order
productInfo(html) == productInfoIn(html, Lower(html))

\* InfoText, had the test of the lines pushed been productInfo.length >= 1
InfoTextAnyField(html, url, info) ==
  IF Len(info) >= 1
  THEN "\nPRODUCT URL: " \o url \o "\n" \o join(info, "\n")
         \o "\n\nADDITIONAL HTML SNIPPETS:\n" \o substring(html, 0, 2000) \o "\n    "
  ELSE "\nPRODUCT URL: " \o url \o "\nRAW HTML:\n" \o substring(html, 0, 4000) \o "\n  "

\* the returned text, given the lines pushed
InfoText(html, url, info) ==
  IF Len(info) >= 2
  THEN "\nPRODUCT URL: " \o url \o "\n" \o join(info, "\n")
         \o "\n\nADDITIONAL HTML SNIPPETS:\n" \o substring(html, 0, 2000) \o "\n    "
  ELSE "\nPRODUCT URL: " \o url \o "\nRAW HTML:\n" \o substring(html, 0, 4000) \o "\n  "

extractProductInfo(html, url) == InfoText(html, url, productInfo(html))

(***************************************************************************)
(* simplifyHtml (productService.js)                                        *)
(***************************************************************************)
\* The match, anchored at i, of  <[^>]*(words)[^>]*>(?:(?!<\/div>)[\s\S])*<\/[^>]*>
\* with the i flag: a tag (ending at e) that names one of the words, then
\* (greedily) everything up to the last closing tag, at c, that starts no later
\* than limit, the first "</div>" after the tag
BlockClose(s, i, e, c) ==
  IF c = 0 THEN NoMatch ELSE Match(i, e + 1, c - 1, IndexOf(s, ">", c + 2))

BlockBody(s, i, e, limit) ==
  BlockClose(s, i, e,
             LastOr({c \in Occ(s, "</", e + 1) : c <= limit /\ IndexOf(s, ">", c + 2) # 0}, 0))

BlockOpen(s, lo, i, words, e) ==
  IF e = 0 THEN NoMatch
  ELSE IF ~IncludesAny(Sub(lo, i + 1, e - 1), words) THEN NoMatch
  ELSE BlockBody(s, i, e, FirstOr(Occ(lo, "</div>", e + 1), Len(s)))

BlockAt(s, lo, i, words) ==
  IF i = 0 \/ At(s, i) # "<" THEN NoMatch
  ELSE BlockOpen(s, lo, i, words, IndexOf(s, ">", i + 1))

\* s.match(/.../gi) || [] for that pattern
RECURSIVE BlockAllFrom(_, _, _, _)
BlockAllRest(s, lo, words, m) ==
  IF ~m.ok THEN <<>> ELSE <<Whole(s, m)>> \o BlockAllFrom(s, lo, m.end + 1, words)

BlockAllFrom(s, lo, from, words) ==
  BlockAllRest(s, lo, words,
               BlockAt(s, lo,
                       FirstOr({i \in Occ(s, "<", from) : BlockAt(s, lo, i, words).ok}, 0),
                       words))

\* a.slice(0, n)
slice(a, n) == SubSeq(a, 1, Min2(n, Len(a)))

TitleElement(s, m) == IF m.ok THEN <<Whole(s, m)>> ELSE <<>>

keyElementsIn(simplified, lo) ==
  TitleElement(simplified, TagFrom(simplified, lo, 1, "<title", {}, "</title>", FALSE))
    \o TagAllFrom(simplified, lo, 1, "<h1", {}, "</h1>", FALSE)
    \o BlockAllFrom(simplified, lo, 1, {"price", "cost"})
    \o slice(BlockAllFrom(simplified, lo, 1, {"description", "details", "features"}), 2)

keyElements(simplified) == keyElementsIn(simplified, Lower(simplified))

Shortened(simplified, elements) ==
  IF Len(elements) >= 3
  THEN substring(join(elements, "\n"), 0, 3000)
  ELSE substring(simplified, 0, 3000)

Simplified(simplified) == Shortened(simplified, keyElements(simplified))

simplifyHtml(html) == Simplified(cleanHtml(html))

(***************************************************************************)
(* extractProductData: the user message, the parsing of the completion     *)
(* text and the fallback records, in both versions of the module           *)
(***************************************************************************)
\* the two versions of the module: productService.js is the file server.js
\* requires, Later the version that extracts the signals before it asks
ProductService == "productService.js"
Later == "productService (signal extraction)"
Versions == {ProductService, Later}

\* the content of the user message, later version
userMessage(html, url) ==
  "Extract only AVAILABLE product information from this HTML.\n\n"
    \o "Use this exact JSON structure:\n{\n  \"url\": \"" \o url \o "\",\n"
    \o "  \"title\": \"Product title\",\n"
    \o "  \"category\": \"Product category (use 'Unknown' only if absolutely no category information is found)\",\n"
    \o "  \"attributes\": {\n    \"colorOptions\": [\"ONLY available color options\"],\n"
    \o "    \"sizeOptions\": [\"ONLY available size options\"]\n"
    \o "    // Include other available product attributes\n  },\n"
    \o "  \"rawPrice\": 0 // Numeric price without currency symbols\n}\n\n"
    \o "HTML Content:\n" \o extractProductInfo(cleanHtml(html), url)

\* the content of the user message, productService.js
userMessagePS(html, url) ==
  "Extract basic product info from this HTML for: " \o url \o "\n          \n"
    \o "          Respond with ONLY this JSON structure:\n          {\n"
    \o "            \"url\": \"" \o url \o "\",\n"
    \o "            \"title\": \"Product title\",\n"
    \o "            \"category\": \"Product category if found, otherwise best guess\",\n"
    \o "            \"attributes\": {\n"
    \o "              \"colorOptions\": [\"array of colors if found\"],\n"
    \o "              \"sizeOptions\": [\"array of sizes if found\"],\n"
    \o "              // other attributes you can find\n            },\n"
    \o "            \"rawPrice\": 29.99 // numeric price without currency symbol\n"
    \o "          }\n          \n          HTML: " \o simplifyHtml(html)

Zero == Num([neg |-> FALSE, int |-> 0, frac |-> ""])

\* the record returned when neither parse succeeds, later version
fallbackRecord(url) ==
  Obj([url |-> url, title |-> Str("Product Title Not Extracted"), category |-> Str("Unknown"),
       attributes |-> Obj([colorOptions |-> Arr(<<>>), sizeOptions |-> Arr(<<>>)]),
       rawPrice |-> Zero])

\* the record returned when neither parse succeeds, productService.js
fallbackRecordPS(url) ==
  Obj([url |-> url, title |-> Str("Product Title Not Extracted"), category |-> Str("Unknown"),
       attributes |-> Obj(<<>>), rawPrice |-> Zero])

\* the record returned by the outer catch, later version
errorRecord(url, message) ==
  Obj([url |-> url, title |-> Str("Error: " \o substring(message, 0, 30)),
       category |-> Str("Unknown"),
       attributes |-> Obj([colorOptions |-> Arr(<<>>), sizeOptions |-> Arr(<<>>)]),
       rawPrice |-> Zero])

\* the record returned by the outer catch, productService.js
errorRecordPS(url, message) ==
  Obj([url |-> url, title |-> Str("Error: " \o substring(message, 0, 30)),
       category |-> Str("Error"), attributes |-> Obj(<<>>), rawPrice |-> Zero])

fallbackOf(version, url) ==
  IF version = ProductService THEN fallbackRecordPS(url) ELSE fallbackRecord(url)

errorOf(version, url, message) ==
  IF version = ProductService THEN errorRecordPS(url, message) ELSE errorRecord(url, message)

\* the inner try/catch: JSON.parse(content), else JSON.parse of the braces match,
\* else the fallback record
parseMatch(jsonMatch, second, fallback) ==
  IF jsonMatch # "" /\ second.ok THEN second.v ELSE fallback

parseSecond(jsonMatch, fallback) == parseMatch(jsonMatch, JsonParse(jsonMatch), fallback)

\* parseFirst, had the catch of the first parse gone straight to the fallback
parseFirstNoRetry(content, first, fallback) == IF first.ok THEN first.v ELSE fallback

parseFirst(content, first, fallback) ==
  IF first.ok THEN first.v ELSE parseSecond(MatchBraces(content), fallback)

parseContent(content, fallback) == parseFirst(content, JsonParse(content), fallback)

\* The outcome of openai.chat.completions.create: the call throws an Error with a
\* message, or resolves to a response whose choices each hold a message content
Thrown(message) == [threw |-> TRUE, message |-> message, choices |-> <<>>]
Response(choices) == [threw |-> FALSE, message |-> "", choices |-> choices]

\* how a call of extractProductData ends: it returns a value, or an Error leaves it
Returned(v) == [threw |-> FALSE, message |-> "", v |-> v]
Raised(message) == [threw |-> TRUE, message |-> message, v |-> Undefined]

\* outerCatch, had the catch block thrown the Error again
outerCatchRethrows(version, url, message) == Raised(message)

\* the outer catch: every Error of the body becomes the error record
outerCatch(version, url, message) == Returned(errorOf(version, url, message))

\* extractProductData before its await: the html is cleaned and the user message
\* assembled; String.prototype.replace on a body that axios parsed as JSON throws
assemble(version, html, url) ==
  IF html.k # "str"
  THEN [threw |-> TRUE, message |-> "html.replace is not a function", text |-> ""]
  ELSE [threw |-> FALSE, message |-> "",
        text |-> IF version = ProductService THEN userMessagePS(html.v, url.v)
                 ELSE userMessage(html.v, url.v)]

\* extractProductData after its await, given the outcome of the call: the Error of
\* the call, or of reading the content of a response that holds none, is caught
afterCompletion(version, outcome, url) ==
  IF outcome.threw THEN outerCatch(version, url, outcome.message)
  ELSE IF Len(outcome.choices) = 0
    THEN outerCatch(version, url, "Cannot read properties of undefined (reading 'message')")
  ELSE IF outcome.choices[1].k = "null"
    THEN outerCatch(version, url, "Cannot read properties of null (reading 'substring')")
  ELSE Returned(parseContent(outcome.choices[1].v, fallbackOf(version, url)))

(***************************************************************************)
(* The service: POST /parse-product (server.js) and fetchProductPage       *)
(***************************************************************************)
\* bounds of the model: the requests in flight, the pieces of a completion text,
\* the options of a select list, the blocks of filler text of a long page
NumRequests == 2
MaxTokens == 4
MaxOptions == 3
PadBlocks == 340

Requests == 1..NumRequests

\* values of the two fields of a request body: absent, empty, given
Url1 == "https://shop.example/p/1"
\* the url each request asks for: no two requests ask for the same page
UrlOf(r) == "https://shop.example/p/" \o Sub("123456789", r, r)
BodyUrls(r) == {Undefined, Str(""), Str(UrlOf(r))}
BodyKeys == {Undefined, Str(""), Str("sk-test")}

\* error messages of a failed axios.get
FetchErrors == {"Network Error", "Request failed with status code 404"}

\* response.data of a successful axios.get: markup, or a body axios parsed as JSON
Page1 == "<h1>ACME Tee</h1>$29.99"
Pages == {Str(Page1), Obj(<<>>)}

\* outcomes of the completion request
CompletionOutcomes ==
  {Thrown("Connection error."),
   Thrown("401 Incorrect API key provided: sk-test. You can find your API key at https://platform.openai.com/account/api-keys."),
   Response(<<>>),
   Response(<<Null>>),
   Response(<<Str("{\"url\":\"u\",\"title\":\"ACME Tee\",\"rawPrice\":29.99}")>>),
   Response(<<Str("Here is the JSON: {\"title\":\"ACME Tee\"}")>>),
   Response(<<Str("I could not find a product.")>>)}

\* Falsy, had the handler compared the fields with undefined
FalsyMissingOnly(v) == v.k = "undefined"

\* !v of JavaScript, for the values a JSON body can hold
Falsy(v) ==
  \/ v.k \in {"undefined", "null"}
  \/ v.k = "str" /\ v.v = ""
  \/ v.k = "bool" /\ v.v = FALSE
  \/ v.k = "num" /\ v.v.int = 0 /\ v.v.frac = ""

NoResponse == [status |-> 0, body |-> Undefined]
MissingParameters ==
  Obj([error |-> Str("Missing required parameters: url and openaiApiKey are required")])
FailedToProcess(message) ==
  Obj([error |-> Str("Failed to process product URL"), message |-> Str(message)])
NoOutcome == [threw |-> FALSE, message |-> "", choices |-> <<>>]

\* assemble, for every version of the module, page and url of a request, each
\* computed once
Assemblies ==
  {[version |-> v, html |-> page, url |-> u, a |-> assemble(v, page, u)] :
     v \in Versions, page \in Pages, u \in {Str(UrlOf(r)) : r \in Requests}}

assembleOf(version, html, url) ==
  (CHOOSE t \in Assemblies : t.version = version /\ t.html = html /\ t.url = url).a

VARIABLES
  moduleVersion, \* the version of the module behind require('./productService')
  pc,           \* where each request's handler stands
  body,         \* req.body of each request
  pageHtml,     \* what fetchProductPage returned to each handler
  prompt,       \* the user message of each request's completion request
  productData,  \* what extractProductData returned to each handler
  res,          \* the response sent for each request: status and JSON body
  fetches,      \* the page fetches issued for each request
  completions,  \* the completion requests issued for each request
  fetchError,   \* the message of the error axios.get threw, "" if none
  outcome,      \* the outcome of each request's completion request
  stages,       \* the stages each request went through, in order
  arg,          \* the argument of the function under test
  out           \* its result

vars ==
  <<moduleVersion, pc, body, pageHtml, prompt, productData, res, fetches, completions,
    fetchError, outcome, stages, arg, out>>

NoArg == [content |-> "", url |-> Undefined]
NoOut == [done |-> FALSE, v |-> Undefined]

Idle ==
  /\ pc = [r \in Requests |-> "idle"]
  /\ body = [r \in Requests |-> [url |-> Undefined, openaiApiKey |-> Undefined]]
  /\ pageHtml = [r \in Requests |-> Undefined]
  /\ prompt = [r \in Requests |-> ""]
  /\ productData = [r \in Requests |-> Undefined]
  /\ res = [r \in Requests |-> NoResponse]
  /\ fetches = [r \in Requests |-> 0]
  /\ completions = [r \in Requests |-> 0]
  /\ fetchError = [r \in Requests |-> ""]
  /\ outcome = [r \in Requests |-> NoOutcome]
  /\ stages = [r \in Requests |-> <<>>]

Init ==
  /\ moduleVersion \in Versions
  /\ Idle
  /\ arg = NoArg
  /\ out = NoOut

\* fetchFailure, had the Error thrown left out error.message
fetchFailureNoCause(message) == "Failed to fetch product page"

\* the message of the Error fetchProductPage throws when axios.get rejects
fetchFailure(message) == "Failed to fetch product page: " \o message

\* a POST /parse-product request arrives: express.json() has parsed its body
Receive(r) ==
  /\ pc[r] = "idle"
  /\ \E u \in BodyUrls(r), k \in BodyKeys :
       body' = [body EXCEPT ![r] = [url |-> u, openaiApiKey |-> k]]
  /\ pc' = [pc EXCEPT ![r] = "received"]
  /\ stages' = [stages EXCEPT ![r] = Append(@, "received")]
  /\ UNCHANGED <<moduleVersion, pageHtml, prompt, productData, res, fetches, completions,
                 fetchError, outcome, arg, out>>

\* Validate, had the 400 response been sent without the return before it
ValidateNoReturn(r) ==
  /\ pc[r] = "received"
  /\ IF Falsy(body[r].url) \/ Falsy(body[r].openaiApiKey)
     THEN /\ res' = [res EXCEPT ![r] = [status |-> 400, body |-> MissingParameters]]
          /\ stages' = [stages EXCEPT ![r] = Append(@, "responded")]
     ELSE /\ stages' = [stages EXCEPT ![r] = Append(@, "validated")]
          /\ UNCHANGED res
  /\ fetches' = [fetches EXCEPT ![r] = @ + 1]
  /\ pc' = [pc EXCEPT ![r] = "fetching"]
  /\ UNCHANGED <<moduleVersion, body, pageHtml, prompt, productData, completions,
                 fetchError, outcome, arg, out>>

\* the handler up to its first await: the 400 response, or the page fetch is issued
Validate(r) ==
  /\ pc[r] = "received"
  /\ IF Falsy(body[r].url) \/ Falsy(body[r].openaiApiKey)
     THEN /\ res' = [res EXCEPT ![r] = [status |-> 400, body |-> MissingParameters]]
          /\ pc' = [pc EXCEPT ![r] = "responded"]
          /\ stages' = [stages EXCEPT ![r] = Append(@, "responded")]
          /\ UNCHANGED fetches
     ELSE /\ fetches' = [fetches EXCEPT ![r] = @ + 1]
          /\ pc' = [pc EXCEPT ![r] = "fetching"]
          /\ stages' = [stages EXCEPT ![r] = Append(@, "validated")]
          /\ UNCHANGED res
  /\ UNCHANGED <<moduleVersion, body, pageHtml, prompt, productData, completions,
                 fetchError, outcome, arg, out>>

\* axios.get resolves: fetchProductPage returns response.data to the handler
FetchReturns(r) ==
  /\ pc[r] = "fetching"
  /\ \E page \in Pages : pageHtml' = [pageHtml EXCEPT ![r] = page]
  /\ pc' = [pc EXCEPT ![r] = "fetched"]
  /\ stages' = [stages EXCEPT ![r] = Append(@, "fetched")]
  /\ UNCHANGED <<moduleVersion, body, prompt, productData, res, fetches, completions,
                 fetchError, outcome, arg, out>>

\* FetchFails, had fetchProductPage tried axios.get once more after a rejection
FetchFailsRetry(r) ==
  /\ pc[r] = "fetching"
  /\ \E e \in FetchErrors :
       /\ fetchError' = [fetchError EXCEPT ![r] = e]
       /\ IF fetches[r] < 2
          THEN /\ fetches' = [fetches EXCEPT ![r] = @ + 1]
               /\ UNCHANGED <<res, pc, stages>>
          ELSE /\ res' = [res EXCEPT ![r] = [status |-> 500, body |-> FailedToProcess(fetchFailure(e))]]
               /\ pc' = [pc EXCEPT ![r] = "responded"]
               /\ stages' = [stages EXCEPT ![r] = Append(@, "responded")]
               /\ UNCHANGED fetches
  /\ UNCHANGED <<moduleVersion, body, pageHtml, prompt, productData, completions,
                 outcome, arg, out>>

\* axios.get rejects: fetchProductPage throws, the handler's catch answers 500
FetchFails(r) ==
  /\ pc[r] = "fetching"
  /\ \E e \in FetchErrors :
       /\ fetchError' = [fetchError EXCEPT ![r] = e]
       /\ res' = [res EXCEPT ![r] = [status |-> 500, body |-> FailedToProcess(fetchFailure(e))]]
  /\ pc' = [pc EXCEPT ![r] = "responded"]
  /\ stages' = [stages EXCEPT ![r] = Append(@, "responded")]
  /\ UNCHANGED <<moduleVersion, body, pageHtml, prompt, productData, fetches, completions,
                 outcome, arg, out>>

\* the handler once extractProductData has ended: the record is held for
\* res.json, or the handler's catch answers 500 with the message of the Error
Settle(r, result) ==
  IF result.threw
  THEN /\ res' = [res EXCEPT ![r] = [status |-> 500, body |-> FailedToProcess(result.message)]]
       /\ pc' = [pc EXCEPT ![r] = "responded"]
       /\ stages' = [stages EXCEPT ![r] = Append(@, "responded")]
       /\ UNCHANGED productData
  ELSE /\ productData' = [productData EXCEPT ![r] = result.v]
       /\ pc' = [pc EXCEPT ![r] = "extracted"]
       /\ stages' = [stages EXCEPT ![r] = Append(@, "extracted")]
       /\ UNCHANGED res

\* the completion request is issued with the assembled user message, or the Error
\* of the assembly is caught
Assembled(r, a) ==
  IF a.threw
  THEN /\ Settle(r, outerCatch(moduleVersion, body[r].url, a.message))
       /\ UNCHANGED <<prompt, completions>>
  ELSE /\ prompt' = [prompt EXCEPT ![r] = a.text]
       /\ completions' = [completions EXCEPT ![r] = @ + 1]
       /\ pc' = [pc EXCEPT ![r] = "completing"]
       /\ UNCHANGED <<productData, stages, res>>

\* extractProductData up to its await
ExtractStarts(r) ==
  /\ pc[r] = "fetched"
  /\ Assembled(r, assembleOf(moduleVersion, pageHtml[r], body[r].url))
  /\ UNCHANGED <<moduleVersion, body, pageHtml, fetches, fetchError, outcome, arg, out>>

\* the completion request settles: extractProductData ends
CompletionReturns(r) ==
  /\ pc[r] = "completing"
  /\ \E o \in CompletionOutcomes :
       /\ outcome' = [outcome EXCEPT ![r] = o]
       /\ Settle(r, afterCompletion(moduleVersion, o, body[r].url))
  /\ UNCHANGED <<moduleVersion, body, pageHtml, prompt, fetches, completions,
                 fetchError, arg, out>>

\* Respond, had productData been one binding of the module, shared by the
\* handlers in flight, instead of a const of each call
RespondShared(r) ==
  /\ pc[r] = "extracted"
  /\ \E q \in Requests :
       /\ productData[q] # Undefined
       /\ res' = [res EXCEPT ![r] = [status |-> 200, body |-> productData[q]]]
  /\ pc' = [pc EXCEPT ![r] = "responded"]
  /\ stages' = [stages EXCEPT ![r] = Append(@, "responded")]
  /\ UNCHANGED <<moduleVersion, body, pageHtml, prompt, productData, fetches, completions,
                 fetchError, outcome, arg, out>>

\* Respond, had the handler not awaited extractProductData
RespondNoAwait(r) ==
  /\ pc[r] \in {"completing", "extracted"}
  /\ res' = [res EXCEPT ![r] = [status |-> 200, body |-> productData[r]]]
  /\ pc' = [pc EXCEPT ![r] = "responded"]
  /\ stages' = [stages EXCEPT ![r] = Append(@, "responded")]
  /\ UNCHANGED <<moduleVersion, body, pageHtml, prompt, productData, fetches, completions,
                 fetchError, outcome, arg, out>>

\* res.json(productData)
Respond(r) ==
  /\ pc[r] = "extracted"
  /\ res' = [res EXCEPT ![r] = [status |-> 200, body |-> productData[r]]]
  /\ pc' = [pc EXCEPT ![r] = "responded"]
  /\ stages' = [stages EXCEPT ![r] = Append(@, "responded")]
  /\ UNCHANGED <<moduleVersion, body, pageHtml, prompt, productData, fetches, completions,
                 fetchError, outcome, arg, out>>

\* the handler of POST /parse-product, for every request in flight
Next ==
  \E r \in Requests :
    \/ Receive(r)
    \/ Validate(r)
    \/ FetchReturns(r)
    \/ FetchFails(r)
    \/ ExtractStarts(r)
    \/ CompletionReturns(r)
    \/ Respond(r)

Spec == Init /\ [][Next]_vars

\* the next step of the handler of request r, once the request has arrived
Step(r) ==
  \/ Validate(r)
  \/ FetchReturns(r)
  \/ FetchFails(r)
  \/ ExtractStarts(r)
  \/ CompletionReturns(r)
  \/ Respond(r)

\* Every outbound call eventually returns or fails: axios.get and the completion
\* request settle their promises. The event loop runs a handler whose request
\* has arrived and resumes it once the promise it awaits has settled. A handler
\* has one step to take at a time, so this is weak fairness of each of its steps.
Fairness == \A r \in Requests : WF_vars(Step(r))

SpecLive == Spec /\ Fairness

(***************************************************************************)
(* The parsing of the completion text, on its own: every text of up to     *)
(* MaxTokens pieces is handed to the inner try/catch of extractProductData *)
(***************************************************************************)
Tokens == {"{", "}", "\"a\":1", "x ", "\"", "[", "]"}

RECURSIVE Concat(_)
Concat(pieces) == IF pieces = <<>> THEN "" ELSE Head(pieces) \o Concat(Tail(pieces))

Texts == {Concat(pieces) : pieces \in UNION {[1..n -> Tokens] : n \in 0..MaxTokens}}

InitParse ==
  /\ moduleVersion \in Versions
  /\ Idle
  /\ arg \in {[content |-> c, url |-> Str(Url1)] : c \in Texts}
  /\ out = NoOut

\* const content = response.choices[0].message.content; try { return JSON.parse ... }
ParseStep ==
  /\ ~out.done
  /\ out' = [done |-> TRUE, v |-> parseContent(arg.content, fallbackOf(moduleVersion, arg.url))]
  /\ UNCHANGED <<moduleVersion, pc, body, pageHtml, prompt, productData, res, fetches, completions,
                 fetchError, outcome, stages, arg>>

NextParse == ParseStep

SpecParse == InitParse /\ [][NextParse]_vars

(***************************************************************************)
(* extractSizeOptions, on its own: every select list of up to MaxOptions   *)
(* options, each written from its visible text, its value attribute and    *)
(* its availability                                                        *)
(***************************************************************************)
NoValue == "(none)"

OptionKinds ==
  {[text |-> "S", value |-> NoValue, flag |-> "available"],
   [text |-> "M", value |-> "M", flag |-> "available"],
   [text |-> "Small", value |-> "sm", flag |-> "available"],
   [text |-> "10", value |-> "10", flag |-> "available"],
   [text |-> "Select size", value |-> "", flag |-> "available"],
   [text |-> "One size fits all ages", value |-> "one-size-fits-all", flag |-> "available"],
   [text |-> "\nXS\n", value |-> NoValue, flag |-> "available"],
   [text |-> "L", value |-> "lg", flag |-> "disabled"],
   [text |-> "XL", value |-> NoValue, flag |-> "sold out"]}

\* the markup of one option
OptionMarkup(o) ==
  "<option"
    \o (IF o.value = NoValue THEN "" ELSE " value=\"" \o o.value \o "\"")
    \o (IF o.flag = "disabled" THEN " disabled" ELSE "")
    \o ">" \o o.text \o (IF o.flag = "sold out" THEN " - Sold Out" ELSE "")
    \o "</option>"

RECURSIVE OptionsMarkup(_)
OptionsMarkup(options) ==
  IF options = <<>> THEN ""
  ELSE OptionMarkup(Head(options)) \o OptionsMarkup(Tail(options))

SelectMarkup(options) == "<select name=\"size\">" \o OptionsMarkup(options) \o "</select>"

SelectLists == UNION {[1..n -> OptionKinds] : n \in 0..MaxOptions}

InitSizes ==
  /\ moduleVersion = Later
  /\ Idle
  /\ arg \in {[options |-> o, html |-> SelectMarkup(o)] : o \in SelectLists}
  /\ out = NoOut

\* extractSizeOptions(html, false)
SizeStep ==
  /\ ~out.done
  /\ out' = [done |-> TRUE, v |-> extractSizeOptions(arg.html, FALSE)]
  /\ UNCHANGED <<moduleVersion, pc, body, pageHtml, prompt, productData, res, fetches, completions,
                 fetchError, outcome, stages, arg>>

NextSizes == SizeStep

SpecSizes == InitSizes /\ [][NextSizes]_vars

(***************************************************************************)
(* extractSizeOptions and extractColorOptions on one list: every list of   *)
(* up to MaxOptions items inside a <ul> that both extractors take as their *)
(* container, among them repeated texts, texts of 20 characters and more,  *)
(* an item without text, a placeholder and an item that is sold out        *)
(***************************************************************************)
ItemKinds ==
  {"<li>Red</li>",
   "<li class=\"swatch red\" data-color=\"Red\">Red</li>",
   "<li data-color=\"Midnight navy, limited edition\">Extra long navy blue colour</li>",
   "<li style=\"background: #fff;\"></li>",
   "<option value=\"M\">M</option>",
   "<li>Sold out</li>",
   "<li>Please select one</li>"}

RECURSIVE ItemsMarkup(_)
ItemsMarkup(items) ==
  IF items = <<>> THEN "" ELSE Head(items) \o ItemsMarkup(Tail(items))

ListMarkup(items) == "<ul class=\"size colors\">" \o ItemsMarkup(items) \o "</ul>"

ItemLists == UNION {[1..n -> ItemKinds] : n \in 0..MaxOptions}

InitOptions ==
  /\ moduleVersion = Later
  /\ Idle
  /\ arg \in {[items |-> i, html |-> ListMarkup(i)] : i \in ItemLists}
  /\ out = NoOut

\* extractSizeOptions(html, includeUnavailable), the flag given or left out
SizesStep ==
  /\ ~out.done
  /\ \E includeUnavailable \in BOOLEAN :
       out' = [done |-> TRUE, op |-> "extractSizeOptions",
               v |-> extractSizeOptions(arg.html, includeUnavailable)]
  /\ UNCHANGED <<moduleVersion, pc, body, pageHtml, prompt, productData, res, fetches, completions,
                 fetchError, outcome, stages, arg>>

\* extractColorOptions(html)
ColorsStep ==
  /\ ~out.done
  /\ out' = [done |-> TRUE, op |-> "extractColorOptions",
             v |-> extractColorOptions(arg.html)]
  /\ UNCHANGED <<moduleVersion, pc, body, pageHtml, prompt, productData, res, fetches, completions,
                 fetchError, outcome, stages, arg>>

NextOptions == SizesStep \/ ColorsStep

SpecOptions == InitOptions /\ [][NextOptions]_vars

(***************************************************************************)
(* extractProductInfo and the user message, on their own: every page made  *)
(* of any of the six signals, and the long pages that hold PadBlocks       *)
(* blocks of filler text before the signals, after them or inside the      *)
(* title                                                                   *)
(***************************************************************************)
Fields == {"title", "price", "sizes", "colors", "description", "category"}

RECURSIVE Repeat(_, _)
Repeat(s, n) ==
  IF n = 0 THEN ""
  ELSE IF n = 1 THEN s
  ELSE Repeat(s, n \div 2) \o Repeat(s, n - (n \div 2))

Filler == Repeat("lorem-ipsum.", PadBlocks)

Pads == {"none", "before", "after", "title"}

\* the text of the title of a page
TitleText(pad) == "ACME Tee" \o (IF pad = "title" THEN " " \o Filler ELSE "")

\* the markup of a page that shows the given fields
PageMarkup(fields, pad) ==
  (IF pad = "before" THEN Filler ELSE "")
    \o (IF "title" \in fields THEN "<h1>" \o TitleText(pad) \o "</h1>" ELSE "")
    \o (IF "price" \in fields THEN "<span class=\"price\">$29.99</span>" ELSE "")
    \o (IF "sizes" \in fields
        THEN "<select name=\"size\"><option>S</option><option>M</option></select>" ELSE "")
    \o (IF "colors" \in fields THEN "<ul class=\"colors\"><li>Red</li></ul>" ELSE "")
    \o (IF "description" \in fields
        THEN "<meta name=\"description\" content=\"Soft cotton tee\">" ELSE "")
    \o (IF "category" \in fields THEN "<nav class=\"breadcrumb\">Men</nav>" ELSE "")
    \o (IF pad = "after" THEN Filler ELSE "")

\* the fields of the long pages: none, one, two, all
LongFieldSets ==
  {f \in SUBSET Fields : Cardinality(f) <= 1} \cup {{"title", "price"}, Fields}

PageShapes ==
  {x \in (SUBSET Fields) \X Pads :
     /\ x[2] # "none" => x[1] \in LongFieldSets
     /\ x[2] = "title" => "title" \in x[1]}

PageInputs ==
  {[fields |-> x[1], pad |-> x[2], html |-> PageMarkup(x[1], x[2]), url |-> Url1] :
     x \in PageShapes}

InitPrompt ==
  /\ moduleVersion \in Versions
  /\ Idle
  /\ arg \in PageInputs
  /\ out = NoOut

\* extractProductInfo(html, url)
InfoStep ==
  /\ ~out.done
  /\ moduleVersion = Later
  /\ out' = [done |-> TRUE, op |-> "extractProductInfo",
             v |-> extractProductInfo(arg.html, arg.url)]
  /\ UNCHANGED <<moduleVersion, pc, body, pageHtml, prompt, productData, res, fetches, completions,
                 fetchError, outcome, stages, arg>>

\* the content of the user message that extractProductData assembles
PromptStep ==
  /\ ~out.done
  /\ out' = [done |-> TRUE, op |-> "userMessage",
             v |-> assemble(moduleVersion, Str(arg.html), Str(arg.url)).text]
  /\ UNCHANGED <<moduleVersion, pc, body, pageHtml, prompt, productData, res, fetches, completions,
                 fetchError, outcome, stages, arg>>

NextPrompt == InfoStep \/ PromptStep

SpecPrompt == InitPrompt /\ [][NextPrompt]_vars

(***************************************************************************)
(* Properties                                                              *)
(***************************************************************************)
StagesOf(r) == {stages[r][i] : i \in 1..Len(stages[r])}

MissingOrEmpty(v) == v.k = "undefined" \/ (v.k = "str" /\ v.v = "")

\* C1: a request whose url or openaiApiKey is missing or empty, whatever the other
\* field holds, is answered with status 400 and the fixed error body as soon as
\* the handler has run, and neither the page fetch nor the completion request is
\* ever issued for it
C1_MissingParameters ==
  \A r \in Requests :
    (pc[r] # "idle" /\ (MissingOrEmpty(body[r].url) \/ MissingOrEmpty(body[r].openaiApiKey)))
      => /\ fetches[r] = 0
         /\ completions[r] = 0
         /\ pc[r] \in {"received", "responded"}
         /\ pc[r] = "responded" =>
              res[r] = [status |-> 400,
                        body |-> Obj([error |-> Str("Missing required parameters: url and openaiApiKey are required")])]

\* an empty url with a credential given has been answered 400
C1_Witness ==
  \E r \in Requests :
    /\ pc[r] = "responded"
    /\ body[r].url = Str("")
    /\ body[r].openaiApiKey = Str("sk-test")
    /\ res[r].status = 400

\* C2: a validated request whose page fetch failed is answered with status 500,
\* the error 'Failed to process product URL' and a message that contains the text
\* of the fetch error, and no completion request is issued for it
C2_FetchFailure ==
  \A r \in Requests :
    fetchError[r] # ""
      => /\ "validated" \in StagesOf(r)
         /\ pc[r] = "responded"
         /\ res[r].status = 500
         /\ res[r].body.k = "obj"
         /\ DOMAIN res[r].body.v = {"error", "message"}
         /\ res[r].body.v.error = Str("Failed to process product URL")
         /\ res[r].body.v.message.k = "str"
         /\ includes(res[r].body.v.message.v, fetchError[r])
         /\ completions[r] = 0

\* a page fetch has failed with a network error and the request was answered 500
C2_Witness ==
  \E r \in Requests : fetchError[r] = "Network Error" /\ res[r].status = 500

\* C3: once the page fetch of a validated request has succeeded, whatever the
\* completion stage meets, extractProductData ends by returning a value and the
\* request is answered with status 200 and that value
C3_ExtractionNeverFails ==
  \A r \in Requests :
    "fetched" \in StagesOf(r)
      => /\ pc[r] \in {"fetched", "completing", "extracted", "responded"}
         /\ pc[r] \in {"extracted", "responded"} => productData[r].k # "undefined"
         /\ pc[r] = "responded" => res[r].status = 200 /\ res[r].body = productData[r]

\* the completion request has thrown and the request was still answered 200
C3_Witness ==
  \E r \in Requests :
    /\ outcome[r] = Thrown("Connection error.")
    /\ pc[r] = "responded"
    /\ res[r].status = 200

\* the span from the first opening brace of a text to its last closing brace
BraceSpan(s) ==
  LET first == IndexOf(s, "{", 1)
      last == LastOr(Occ(s, "}", 1), 0)
  IN IF first = 0 \/ last < first THEN "" ELSE Sub(s, first, last)

\* C4: the completion text is parsed by a three-step ladder: the parse of the
\* full text if it is valid JSON; otherwise the parse of the span from its first
\* opening brace to its last closing brace, if there is one and it is valid JSON;
\* otherwise the static fallback record.  So a valid JSON object that follows
\* text without braces is returned parsed
C4_ParseLadder ==
  out.done =>
    LET content == arg.content
        first == JsonParse(content)
        span == BraceSpan(content)
        second == JsonParse(span)
    IN /\ first.ok => out.v = first.v
       /\ (~first.ok /\ span # "" /\ second.ok) => out.v = second.v
       /\ (~first.ok /\ ~(span # "" /\ second.ok)) => out.v = fallbackOf(moduleVersion, arg.url)
       /\ \A i \in 1..Len(content) :
            (/\ At(content, i) = "{"
             /\ ~includes(Sub(content, 1, i - 1), "{")
             /\ ~includes(Sub(content, 1, i - 1), "}")
             /\ JsonParse(From(content, i)).ok)
              => out.v = JsonParse(From(content, i)).v

\* an object that follows explanatory text has been returned parsed
C4_Witness ==
  /\ out.done
  /\ arg.content = "x {\"a\":1}"
  /\ out.v = Obj([a |-> Num([neg |-> FALSE, int |-> 1, frac |-> ""])])

\* neither parse of a text succeeds
Unparsable(content) ==
  /\ ~JsonParse(content).ok
  /\ BraceSpan(content) = "" \/ ~JsonParse(BraceSpan(content)).ok

\* a record whose attributes hold empty colorOptions and sizeOptions arrays and
\* whose rawPrice is 0
EmptyProduct(record, url) ==
  /\ record.k = "obj"
  /\ DOMAIN record.v = {"url", "title", "category", "attributes", "rawPrice"}
  /\ record.v.url = url
  /\ record.v.title.k = "str"
  /\ record.v.category.k = "str"
  /\ record.v.attributes.k = "obj"
  /\ "colorOptions" \in DOMAIN record.v.attributes.v
  /\ "sizeOptions" \in DOMAIN record.v.attributes.v
  /\ record.v.attributes.v.colorOptions = Arr(<<>>)
  /\ record.v.attributes.v.sizeOptions = Arr(<<>>)
  /\ record.v.rawPrice = Zero

\* the completion request of r has returned a text
HasContent(r) ==
  /\ ~outcome[r].threw
  /\ Len(outcome[r].choices) > 0
  /\ outcome[r].choices[1].k = "str"

\* C5: whenever neither parse of the completion text succeeds, the record sent to
\* the caller has the static fallback shape: the url of the request, the
\* placeholder title and category, attributes with empty colorOptions and
\* sizeOptions arrays, and rawPrice 0
C5_StaticFallback ==
  \A r \in Requests :
    (pc[r] = "responded" /\ HasContent(r) /\ Unparsable(outcome[r].choices[1].v))
      => /\ res[r].status = 200
         /\ EmptyProduct(res[r].body, body[r].url)
         /\ res[r].body.v.title = Str("Product Title Not Extracted")
         /\ res[r].body.v.category = Str("Unknown")

\* C6: whenever the completion request fails at the transport level,
\* extractProductData returns a record whose title is 'Error: ' followed by at
\* most the first 30 characters of the error message, with the url of the
\* request, attributes with empty colorOptions and sizeOptions arrays, and
\* rawPrice 0
C6_TransportFailure ==
  \A r \in Requests :
    (outcome[r].threw /\ pc[r] \in {"extracted", "responded"})
      => /\ EmptyProduct(productData[r], body[r].url)
         /\ productData[r].v.title = Str("Error: " \o Sub(outcome[r].message, 1, 30))

\* the options of a select list that do not signal unavailability
RECURSIVE AvailableTexts(_)
AvailableTexts(options) ==
  IF options = <<>> THEN <<>>
  ELSE (IF Head(options).flag = "available" THEN <<trim(Head(options).text)>> ELSE <<>>)
         \o AvailableTexts(Tail(options))

\* C7, as claimed: for a select list of options, extractSizeOptions(html, false)
\* returns exactly the deduplicated visible texts of the options that do not
\* signal unavailability
C7_ExactlyVisibleTexts ==
  out.done => out.v = Dedupe(AvailableTexts(arg.options), <<>>)

\* what one option contributes: nothing if it signals unavailability, if its
\* markup holds a line break, or if its visible text is empty or contains
\* 'Select' or 'Choose'; otherwise its visible text, followed by its value
\* attribute when that is not empty, not all digits, does not contain 'select'
\* and is shorter than 10 characters
OptionYield(o) ==
  IF o.flag # "available" THEN <<>>
  ELSE IF HasLineEnd(o.text) THEN <<>>
  ELSE IF trim(o.text) = "" \/ includes(o.text, "Select") \/ includes(o.text, "Choose") THEN <<>>
  ELSE IF o.value \notin {NoValue, ""} /\ ~AllDigits(o.value)
            /\ ~includes(o.value, "select") /\ Len(o.value) < 10
    THEN <<trim(o.text), o.value>>
  ELSE <<trim(o.text)>>

RECURSIVE OptionYields(_)
OptionYields(options) ==
  IF options = <<>> THEN <<>>
  ELSE OptionYield(Head(options)) \o OptionYields(Tail(options))

ShortAndNoPlaceholder(s) ==
  s # "" /\ Len(s) < 20 /\ ~includes(s, "select") /\ ~includes(s, "choose")

\* C7, amended: for a select list of options, extractSizeOptions(html, false)
\* returns, deduplicated and in the order of the list, what the options written
\* on one line that do not signal unavailability yield (the visible text unless
\* it is empty or a 'Select'/'Choose' placeholder, then the qualifying value
\* attribute), less the elements of 20 characters or more and those that contain
\* 'select' or 'choose'; an option that signals unavailability yields nothing
C7_TextsAndValues ==
  out.done => out.v = SelectSeq(Dedupe(OptionYields(arg.options), <<>>), ShortAndNoPlaceholder)

\* a list of three options, one of them sold out, one with a value attribute
C7_Witness ==
  /\ out.done
  /\ arg.options = <<[text |-> "Small", value |-> "sm", flag |-> "available"],
                     [text |-> "XL", value |-> NoValue, flag |-> "sold out"],
                     [text |-> "S", value |-> NoValue, flag |-> "available"]>>
  /\ out.v = <<"Small", "sm", "S">>

StageRank(stage) ==
  CASE stage = "received" -> 1
    [] stage = "validated" -> 2
    [] stage = "fetched" -> 3
    [] stage = "extracted" -> 4
    [] stage = "responded" -> 5

\* C8: within one request the stages occur only in the order received, validated,
\* fetched, extracted, responded; the completion request is issued only once the
\* page fetch has returned and the user message is assembled from the page; the
\* success response is sent only once the completion stage has produced a record
C8_StageOrder ==
  \A r \in Requests :
    /\ \A i, j \in 1..Len(stages[r]) :
         i < j => StageRank(stages[r][i]) < StageRank(stages[r][j])
    /\ completions[r] > 0
         => /\ "fetched" \in StagesOf(r)
            /\ fetches[r] = 1
            /\ pageHtml[r].k = "str"
            /\ prompt[r] # ""
            /\ includes(prompt[r], body[r].url.v)
    /\ res[r].status = 200
         => /\ "extracted" \in StagesOf(r)
            /\ productData[r].k # "undefined"
            /\ res[r].body = productData[r]

\* a request has gone through the five stages
C8_Witness ==
  \E r \in Requests :
    stages[r] = <<"received", "validated", "fetched", "extracted", "responded">>

\* the labelled line of a field of a page
FieldLine(field, pad) ==
  CASE field = "title" -> "PRODUCT TITLE: " \o TitleText(pad)
    [] field = "price" -> "PRODUCT PRICE: $29.99"
    [] field = "sizes" -> "AVAILABLE SIZE OPTIONS: S, M"
    [] field = "colors" -> "AVAILABLE COLOR OPTIONS: Red"
    [] field = "description" -> "PRODUCT DESCRIPTION: Soft cotton tee..."
    [] field = "category" -> "PRODUCT CATEGORY: Men"

FieldOrder == <<"title", "price", "sizes", "colors", "description", "category">>

RECURSIVE FieldLines(_, _, _)
FieldLines(order, fields, pad) ==
  IF order = <<>> THEN ""
  ELSE (IF Head(order) \in fields THEN FieldLine(Head(order), pad) \o "\n" ELSE "")
         \o FieldLines(Tail(order), fields, pad)

\* C9: extractProductInfo returns the labelled block (the url, one labelled line
\* for each detected field and no line for the others, then the first 2000
\* characters of the markup) if and only if at least two fields were detected;
\* with no or one detected field it returns the url and the first 4000
\* characters of the markup
C9_LabelledBlock ==
  (out.done /\ out.op = "extractProductInfo") =>
    out.v = IF Cardinality(arg.fields) >= 2
            THEN "\nPRODUCT URL: " \o arg.url \o "\n"
                   \o FieldLines(FieldOrder, arg.fields, arg.pad)
                   \o "\nADDITIONAL HTML SNIPPETS:\n" \o Sub(arg.html, 1, 2000) \o "\n    "
            ELSE "\nPRODUCT URL: " \o arg.url \o "\nRAW HTML:\n"
                   \o Sub(arg.html, 1, 4000) \o "\n  "

\* a long page with two detected fields has given the labelled block
C9_Witness ==
  /\ out.done
  /\ out.op = "extractProductInfo"
  /\ arg.fields = {"title", "price"}
  /\ arg.pad = "after"
  /\ Len(arg.html) > 4000
  /\ includes(out.v, "ADDITIONAL HTML SNIPPETS")

\* C10: the text placed in the user message is bounded by a fixed limit that
\* does not grow with the markup: the fixed text of the message with the url,
\* and the largest excerpt that the code cuts, 4000 characters
C10_PromptCapped ==
  (out.done /\ out.op = "userMessage") =>
    Len(out.v) <= Len(assemble(moduleVersion, Str(""), Str(arg.url)).text) + 4000


\* ---- C11 ----
\* the fields of the model that belong to request r
Own(r) ==
  <<pc[r], body[r], pageHtml[r], prompt[r], productData[r], res[r], fetches[r],
    completions[r], fetchError[r], outcome[r], stages[r]>>

\* the response request r is due, from its own url and credential and the
\* outcomes of its own page fetch and completion request
OwnResponse(r) ==
  IF MissingOrEmpty(body[r].url) \/ MissingOrEmpty(body[r].openaiApiKey)
  THEN [status |-> 400, body |-> MissingParameters]
  ELSE IF fetchError[r] # ""
  THEN [status |-> 500,
        body |-> FailedToProcess("Failed to fetch product page: " \o fetchError[r])]
  ELSE IF pageHtml[r].k # "str"
  THEN [status |-> 200,
        body |-> errorOf(moduleVersion, body[r].url, "html.replace is not a function")]
  ELSE [status |-> 200, body |-> afterCompletion(moduleVersion, outcome[r], body[r].url).v]

\* C11: with requests served concurrently, in every interleaving of their
\* steps, the response a request gets is the one its own url, credential, page
\* fetch outcome and completion outcome determine, and a step of one request
\* changes no field of another request
C11_Isolation ==
  /\ [](\A r \in Requests : pc[r] = "responded" => res[r] = OwnResponse(r))
  /\ [][\E r \in Requests : \A q \in Requests \ {r} : Own(q)' = Own(q)]_vars

\* two requests were in flight together and got different answers from the
\* same completion outcome, each for its own url, while the later one's page
\* fetch was issued before the earlier one was answered
C11_Witness ==
  \E r, q \in Requests :
    /\ r # q
    /\ pc[r] = "responded" /\ pc[q] = "responded"
    /\ res[r].status = 200 /\ res[q].status = 200
    /\ outcome[r] = outcome[q]
    /\ res[r].body # res[q].body
    /\ "url" \in DOMAIN res[r].body.v /\ res[r].body.v.url = body[r].url
    /\ "url" \in DOMAIN res[q].body.v /\ res[q].body.v.url = body[q].url


\* ---- C13 ----
\* the handler of request r has run past its validation
PastValidation(r) == pc[r] \notin {"idle", "received"}

\* C13: a request that passed validation has issued exactly one page fetch and
\* at most one completion request, the completion request only after the fetch
\* returned; after a failed fetch or a failed completion request the count of
\* neither call grows and the request is answered; a request rejected by
\* validation has issued neither call
C13_CallsOnce ==
  \A r \in Requests :
    /\ fetches[r] <= 1 /\ completions[r] <= 1
    /\ completions[r] = 1 => (fetches[r] = 1 /\ pageHtml[r] # Undefined)
    /\ PastValidation(r) =>
         IF MissingOrEmpty(body[r].url) \/ MissingOrEmpty(body[r].openaiApiKey)
         THEN fetches[r] = 0 /\ completions[r] = 0
         ELSE fetches[r] = 1
    /\ fetchError[r] # "" =>
         (fetches[r] = 1 /\ completions[r] = 0 /\ pc[r] = "responded")
    /\ outcome[r].threw =>
         (fetches[r] = 1 /\ completions[r] = 1 /\ pc[r] \in {"extracted", "responded"})

\* one request was answered after its page fetch failed, with no completion
\* request; another after its completion request failed, with one call of each
C13_Witness ==
  \E r, q \in Requests :
    /\ pc[r] = "responded" /\ fetchError[r] # ""
    /\ fetches[r] = 1 /\ completions[r] = 0
    /\ pc[q] = "responded" /\ outcome[q].threw
    /\ fetches[q] = 1 /\ completions[q] = 1


\* ---- C12 ----
\* C12: the array either option extractor returns, for every list and either
\* value of includeUnavailable, holds no string twice (strings that differ in
\* case are different strings), no empty string and no string of 20
\* characters or more
C12_OptionsClean ==
  (out.done /\ out.op \in {"extractSizeOptions", "extractColorOptions"}) =>
    /\ \A i, j \in 1..Len(out.v) : out.v[i] = out.v[j] => i = j
    /\ \A i \in 1..Len(out.v) : out.v[i] # "" /\ Len(out.v[i]) < 20

\* the colours of a list that names Red three times, once more as the class
\* red, and holds a text and a data-color of over 20 characters: Red and red
\* are both kept, once each, and the long strings are gone
C12_Witness ==
  /\ out.done /\ out.op = "extractColorOptions"
  /\ arg.items =
       <<"<li class=\"swatch red\" data-color=\"Red\">Red</li>",
         "<li data-color=\"Midnight navy, limited edition\">Extra long navy blue colour</li>",
         "<li>Red</li>">>
  /\ out.v = <<"Red", "red">>


\* ---- C14 ----
\* the responses sent for request r
Responses(r) == Len(SelectSeq(stages[r], LAMBDA stage : stage = "responded"))

\* C14: when every outbound call eventually returns or fails, every request
\* that arrived is eventually answered; no request is ever answered twice; an
\* answered request has exactly one response, of status 400, 500 or 200, and
\* nothing of it changes afterwards
C14_OneResponse ==
  /\ \A r \in Requests : (pc[r] = "received") ~> (pc[r] = "responded")
  /\ [](\A r \in Requests :
          /\ Responses(r) <= 1
          /\ pc[r] = "responded" <=> Responses(r) = 1
          /\ Responses(r) = 1 <=> res[r].status \in {400, 500, 200}
          /\ Responses(r) = 0 <=> res[r] = NoResponse)
  /\ [][\A r \in Requests : pc[r] = "responded" => Own(r)' = Own(r)]_vars

\* one request was rejected with 400 and another answered with 200 and the
\* product the completion returned, each with exactly one response
C14_Witness ==
  \E r, q \in Requests :
    /\ pc[r] = "responded" /\ res[r].status = 400 /\ Responses(r) = 1
    /\ pc[q] = "responded" /\ res[q].status = 200 /\ Responses(q) = 1
    /\ ~outcome[q].threw /\ Len(outcome[q].choices) = 1
    /\ "title" \in DOMAIN res[q].body.v
    /\ res[q].body.v.title = Str("ACME Tee")

====
